---- MODULE Spec2Model ----
(***************************************************************************)
(* Model of minari/serialization.py: the codec between gymnasium space     *)
(* descriptors and their JSON form.                                        *)
(*                                                                         *)
(*   serialize_space    functools.singledispatch on the descriptor's type  *)
(*   deserialize_space  type_value_dispatch, a defaultdict keyed on the    *)
(*                      value of the "type" field                          *)
(*                                                                         *)
(* Python values are tagged records (field k names the Python type), a     *)
(* Python dict is the sequence of its <<key, value>> pairs in insertion    *)
(* order, and a JSON document is the sequence of its lexical tokens, so    *)
(* json.dumps and json.loads are a printer and a parser, not the identity. *)
(* Floats are modelled by integer-valued floats: the Python type of a      *)
(* number (int or float) and the numpy dtype of an array are kept.         *)
(***************************************************************************)
EXTENDS Integers, Sequences, FiniteSets, TLC

(***************************************************************************)
(* Python values                                                           *)
(***************************************************************************)
None == [k |-> "none"]
PyStr(s) == [k |-> "str", s |-> s]
PyInt(n) == [k |-> "int", n |-> n]
PyFloat(x) == [k |-> "float", x |-> x]
PyList(items) == [k |-> "list", items |-> items]
PyDict(pairs) == [k |-> "dict", pairs |-> pairs]
\* a Python str that holds a JSON document (what json.dumps returns)
PyText(toks) == [k |-> "text", toks |-> toks]

\* key in d  (d a Python dict)
HasKey(d, key) == \E i \in 1..Len(d.pairs) : d.pairs[i][1] = key

\* d[key]  (d a Python dict that has the key)
Get(d, key) == d.pairs[CHOOSE i \in 1..Len(d.pairs) : d.pairs[i][1] = key][2]

\* list(d.keys())
Keys(d) == [i \in 1..Len(d.pairs) |-> d.pairs[i][1]]

(***************************************************************************)
(* json.dumps: the token sequence of a value.  Tokens have one shape:      *)
(* t is the token kind, s the content of a string token, n the value of a  *)
(* number token, sub the tokens of a string whose content is itself a      *)
(* JSON document.                                                          *)
(***************************************************************************)
Tok(t, s, n, sub) == [t |-> t, s |-> s, n |-> n, sub |-> sub]
Punct(c) == Tok(c, "", 0, <<>>)
StrTok(s) == Tok("string", s, 0, <<>>)
IntTok(n) == Tok("int", "", n, <<>>)
FloatTok(x) == Tok("float", "", x, <<>>)
TextTok(toks) == Tok("string", "", 0, toks)

RECURSIVE JsonEncode(_)
RECURSIVE JsonEncodeItems(_, _)
RECURSIVE JsonEncodePairs(_, _)
JsonEncode(v) ==
    CASE v.k = "str" -> <<StrTok(v.s)>>
      [] v.k = "text" -> <<TextTok(v.toks)>>
      [] v.k = "int" -> <<IntTok(v.n)>>
      [] v.k = "float" -> <<FloatTok(v.x)>>
      [] v.k = "list" -> <<Punct("[")>> \o JsonEncodeItems(v.items, 1) \o <<Punct("]")>>
      [] v.k = "dict" -> <<Punct("{")>> \o JsonEncodePairs(v.pairs, 1) \o <<Punct("}")>>
      [] OTHER -> <<Tok("null", "", 0, <<>>)>>
JsonEncodeItems(items, i) ==
    IF i > Len(items) THEN <<>>
    ELSE (IF i > 1 THEN <<Punct(",")>> ELSE <<>>)
         \o JsonEncode(items[i]) \o JsonEncodeItems(items, i + 1)
JsonEncodePairs(pairs, i) ==
    IF i > Len(pairs) THEN <<>>
    ELSE (IF i > 1 THEN <<Punct(",")>> ELSE <<>>)
         \o <<StrTok(pairs[i][1]), Punct(":")>>
         \o JsonEncode(pairs[i][2]) \o JsonEncodePairs(pairs, i + 1)

\* the values json.dumps renders: Python's own types, not numpy scalars
RECURSIVE Serializable(_)
Serializable(v) ==
    CASE v.k \in {"str", "text", "int", "float", "none"} -> TRUE
      [] v.k = "list" -> \A i \in 1..Len(v.items) : Serializable(v.items[i])
      [] v.k = "dict" -> \A i \in 1..Len(v.pairs) : Serializable(v.pairs[i][2])
      [] OTHER -> FALSE

\* json.dumps(result) of a serializable value
JsonDumps(v) == PyText(JsonEncode(v))

(***************************************************************************)
(* json.loads: a recursive-descent parser over the tokens.  A parse is     *)
(* [ok, v, next]: the value read and the index of the first token after    *)
(* it.  A key that occurs twice keeps its first position and its last      *)
(* value, as a Python dict does.                                           *)
(***************************************************************************)
ParseFail == [ok |-> FALSE, v |-> None, next |-> 0]

\* d[key] = value on the pair sequence of a Python dict
SetItem(pairs, key, value) ==
    IF \E i \in 1..Len(pairs) : pairs[i][1] = key
    THEN [i \in 1..Len(pairs) |-> IF pairs[i][1] = key THEN <<key, value>> ELSE pairs[i]]
    ELSE Append(pairs, <<key, value>>)

RECURSIVE JsonParse(_, _)
RECURSIVE JsonParseItems(_, _, _)
RECURSIVE JsonParsePairs(_, _, _)
JsonParse(toks, i) ==
    IF i > Len(toks) THEN ParseFail
    ELSE LET tk == toks[i] IN
         CASE tk.t = "string" ->
                  [ok |-> TRUE,
                   v |-> IF tk.sub = <<>> THEN PyStr(tk.s) ELSE PyText(tk.sub),
                   next |-> i + 1]
           [] tk.t = "int" -> [ok |-> TRUE, v |-> PyInt(tk.n), next |-> i + 1]
           [] tk.t = "float" -> [ok |-> TRUE, v |-> PyFloat(tk.n), next |-> i + 1]
           [] tk.t = "null" -> [ok |-> TRUE, v |-> None, next |-> i + 1]
           [] tk.t = "[" ->
                  IF i + 1 <= Len(toks) /\ toks[i + 1].t = "]"
                  THEN [ok |-> TRUE, v |-> PyList(<<>>), next |-> i + 2]
                  ELSE JsonParseItems(toks, i + 1, <<>>)
           [] tk.t = "{" ->
                  IF i + 1 <= Len(toks) /\ toks[i + 1].t = "}"
                  THEN [ok |-> TRUE, v |-> PyDict(<<>>), next |-> i + 2]
                  ELSE JsonParsePairs(toks, i + 1, <<>>)
           [] OTHER -> ParseFail
\* the elements of an array from token i on, acc the elements read so far
JsonParseItems(toks, i, acc) ==
    LET e == JsonParse(toks, i) IN
    IF ~e.ok \/ e.next > Len(toks) THEN ParseFail
    ELSE IF toks[e.next].t = "]"
         THEN [ok |-> TRUE, v |-> PyList(Append(acc, e.v)), next |-> e.next + 1]
    ELSE IF toks[e.next].t = ","
         THEN JsonParseItems(toks, e.next + 1, Append(acc, e.v))
    ELSE ParseFail
\* the members of an object from token i on, acc the pairs read so far
JsonParsePairs(toks, i, acc) ==
    IF i + 1 > Len(toks) \/ toks[i].t # "string" \/ toks[i].sub # <<>>
       \/ toks[i + 1].t # ":"
    THEN ParseFail
    ELSE LET e == JsonParse(toks, i + 2) IN
         IF ~e.ok \/ e.next > Len(toks) THEN ParseFail
         ELSE IF toks[e.next].t = "}"
              THEN [ok |-> TRUE, v |-> PyDict(SetItem(acc, toks[i].s, e.v)),
                    next |-> e.next + 1]
         ELSE IF toks[e.next].t = ","
              THEN JsonParsePairs(toks, e.next + 1, SetItem(acc, toks[i].s, e.v))
         ELSE ParseFail

\* json.loads(text): the whole text is one value, else JSONDecodeError
JsonLoads(text) ==
    LET p == JsonParse(text.toks, 1) IN
    IF p.ok /\ p.next = Len(text.toks) + 1
    THEN [ok |-> TRUE, v |-> p.v]
    ELSE [ok |-> FALSE, v |-> None]

(***************************************************************************)
(* numpy                                                                   *)
(***************************************************************************)
\* the dtype names np.dtype resolves
Dtypes == {"float32", "float64", "int32", "int64"}
IsFloatDtype(dtype) == dtype \in {"float32", "float64"}

\* an ndarray of rank 0 (shape <<>>, one element) or rank 1 (shape <<len>>)
NdArray(dtype, shape, data) == [dtype |-> dtype, shape |-> shape, data |-> data]

\* the numpy scalar np.int64(val)
NpInt64(val) == [k |-> "np.int64", val |-> val]

\* the Python number the element e of an array of this dtype converts to
ToNative(dtype, e) == IF IsFloatDtype(dtype) THEN PyFloat(e) ELSE PyInt(e)

\* ndarray.tolist(): a Python scalar for rank 0, a list of them for rank 1
ToList(a) ==
    IF a.shape = <<>> THEN ToNative(a.dtype, a.data[1])
    ELSE PyList([i \in 1..Len(a.data) |-> ToNative(a.dtype, a.data[i])])

IsNumber(v) == v.k \in {"int", "float"}
NumberOf(v) == IF v.k = "float" THEN v.x ELSE v.n

\* np.array(v) of a Python number or a list of Python numbers: the dtype
\* is inferred, float64 when a float occurs and int64 otherwise
NpArray(v) ==
    IF IsNumber(v)
    THEN [ok |-> TRUE,
          a |-> NdArray(IF v.k = "float" THEN "float64" ELSE "int64", <<>>,
                        <<NumberOf(v)>>)]
    ELSE IF v.k = "list" /\ \A i \in 1..Len(v.items) : IsNumber(v.items[i])
    THEN [ok |-> TRUE,
          a |-> NdArray(IF \E i \in 1..Len(v.items) : v.items[i].k = "float"
                           \/ v.items = <<>>
                        THEN "float64" ELSE "int64",
                        <<Len(v.items)>>,
                        [i \in 1..Len(v.items) |-> NumberOf(v.items[i])])]
    ELSE [ok |-> FALSE, a |-> NdArray("object", <<>>, <<>>)]

\* ndarray.astype(dtype); the modelled elements are representable in every
\* dtype of Dtypes
AsType(a, dtype) == NdArray(dtype, a.shape, a.data)

(***************************************************************************)
(* gymnasium.spaces: the descriptors and their constructors                *)
(***************************************************************************)
\* the order of the key strings that sorted() uses
KeyOrder == <<"a", "b", "c">>
KeyRank(key) == CHOOSE i \in 1..Len(KeyOrder) : KeyOrder[i] = key

\* sorted(spaces.items()): insertion of every pair at its place
RECURSIVE SortedItems(_)
SortedItems(pairs) ==
    IF pairs = <<>> THEN <<>>
    ELSE LET m == CHOOSE i \in 1..Len(pairs) :
                     \A j \in 1..Len(pairs) : KeyRank(pairs[i][1]) <= KeyRank(pairs[j][1])
             rest == [j \in 1..(Len(pairs) - 1) |->
                         IF j < m THEN pairs[j] ELSE pairs[j + 1]]
         IN <<pairs[m]>> \o SortedItems(rest)

\* spaces.Dict(spaces): the items of an OrderedDict keep their order, the
\* items of any other mapping are sorted by key
DictSpace(pairs, isOrderedDict) ==
    [variant |-> "Dict",
     spaces |-> IF isOrderedDict THEN pairs ELSE SortedItems(pairs)]

\* spaces.Tuple(spaces)
TupleSpace(subspaces) == [variant |-> "Tuple", spaces |-> subspaces]

\* spaces.Discrete(n=n, start=start): n and start are integers, n > 0,
\* both stored as np.int64
DiscreteOk(n, start) == n.k = "int" /\ start.k = "int" /\ n.n > 0
DiscreteSpace(n, start) ==
    [variant |-> "Discrete", n |-> NpInt64(n.n),
     start |-> NpInt64(start.n)]

\* spaces.Box(low=low, high=high, shape=shape, dtype=dtype) of two
\* ndarrays: their shapes are the given shape, and they are cast to dtype
BoxOk(low, high, shape) == low.shape = shape /\ high.shape = shape
BoxSpace(low, high, shape, dtype) ==
    [variant |-> "Box", dtype |-> dtype, shape |-> shape,
     low |-> AsType(low, dtype), high |-> AsType(high, dtype)]

\* spaces.MultiBinary(n): a variant no encoder is registered for
MultiBinarySpace(n) == [variant |-> "MultiBinary", n |-> n]

\* the legal values of a Discrete descriptor
LegalValues(d) == d.start.val .. (d.start.val + d.n.val - 1)

(***************************************************************************)
(* The encoder: serialize_space and its registered implementations.  A     *)
(* call returns [ok, val, err, about]: the value returned, or the          *)
(* exception raised and the descriptor it names.                           *)
(***************************************************************************)
Returned(val) == [ok |-> TRUE, val |-> val, err |-> "", about |-> None]
Raised(err, about) == [ok |-> FALSE, val |-> None, err |-> err, about |-> about]

\* the implementations registered on serialize_space, per descriptor type
\* (the source names three of them _serialize_discrete; the table holds the
\* function objects, named here after the type they are registered for)
EncoderTable ==
    [variant \in {"Box", "Discrete", "Dict", "Tuple"} |->
        CASE variant = "Box" -> "_serialize_box"
          [] variant = "Discrete" -> "_serialize_discrete"
          [] variant = "Dict" -> "_serialize_dict"
          [] variant = "Tuple" -> "_serialize_tuple"]

\* singledispatch: the implementation of the descriptor's type, and the
\* undecorated function for a type none is registered for
Dispatch(table, variant) ==
    IF variant \in DOMAIN table THEN table[variant] ELSE "serialize_space"

\* if to_string: result = json.dumps(result)
Finish(result, to_string) ==
    IF ~to_string THEN Returned(result)
    ELSE IF Serializable(result) THEN Returned(JsonDumps(result))
    ELSE Raised("TypeError", None)

\* _serialize_box with the upper bound taken from space.low
SerializeBoxHighFromLow(space, to_string) ==
    Finish(PyDict(<< <<"type", PyStr("Box")>>,
                     <<"dtype", PyStr(space.dtype)>>,
                     <<"shape", PyList([i \in 1..Len(space.shape) |-> PyInt(space.shape[i])])>>,
                     <<"low", ToList(space.low)>>,
                     <<"high", ToList(space.low)>> >>),
           to_string)

\* _serialize_box
SerializeBox(space, to_string) ==
    Finish(PyDict(<< <<"type", PyStr("Box")>>,
                     <<"dtype", PyStr(space.dtype)>>,
                     <<"shape", PyList([i \in 1..Len(space.shape) |-> PyInt(space.shape[i])])>>,
                     <<"low", ToList(space.low)>>,
                     <<"high", ToList(space.high)>> >>),
           to_string)

\* int(x) of a numpy integer scalar
IntOf(x) == PyInt(x.val)

\* _serialize_discrete without the casts to int
SerializeDiscreteUncast(space, to_string) ==
    Finish(PyDict(<< <<"type", PyStr("Discrete")>>,
                     <<"dtype", PyStr("int64")>>,
                     <<"start", space.start>>,
                     <<"n", space.n>> >>),
           to_string)

\* _serialize_discrete
SerializeDiscrete(space, to_string) ==
    Finish(PyDict(<< <<"type", PyStr("Discrete")>>,
                     <<"dtype", PyStr("int64")>>,
                     <<"start", IntOf(space.start)>>,
                     <<"n", IntOf(space.n)>> >>),
           to_string)

RECURSIVE SerializeSpace(_, _, _)
RECURSIVE SerializeDictItems(_, _, _, _)
RECURSIVE SerializeTupleItems(_, _, _, _)
RECURSIVE SerializeDictItemsSkipping(_, _, _, _)
RECURSIVE SerializeTupleItemsPrepending(_, _, _, _)

\* the nested call with to_string left at its default, True
SerializeNestedAsText(table, subspace) == SerializeSpace(table, subspace, TRUE)

\* the nested call of both composites: serialize_space(subspace, to_string=False)
SerializeNested(table, subspace) == SerializeSpace(table, subspace, FALSE)

\* the Dict loop leaving out the keys whose nested call raises
SerializeDictItemsSkipping(table, pairs, i, subspaces) ==
    IF i > Len(pairs) THEN Returned(PyDict(subspaces))
    ELSE LET r == SerializeNested(table, pairs[i][2]) IN
         SerializeDictItemsSkipping(table, pairs, i + 1,
             IF r.ok THEN SetItem(subspaces, pairs[i][1], r.val) ELSE subspaces)

\* the loop of the Dict implementation from the i-th key on, subspaces the
\* mapping filled so far; an exception of a nested call ends the loop
SerializeDictItems(table, pairs, i, subspaces) ==
    IF i > Len(pairs) THEN Returned(PyDict(subspaces))
    ELSE LET r == SerializeNested(table, pairs[i][2]) IN
         IF ~r.ok THEN r
         ELSE SerializeDictItems(table, pairs, i + 1,
                                 SetItem(subspaces, pairs[i][1], r.val))

\* the implementation registered for spaces.Dict
SerializeDict(table, space, to_string) ==
    LET r == SerializeDictItems(table, space.spaces, 1, <<>>) IN
    IF ~r.ok THEN r
    ELSE Finish(PyDict(<< <<"type", PyStr("Dict")>>, <<"subspaces", r.val>> >>),
                to_string)

\* the Tuple loop inserting at the front instead of appending
SerializeTupleItemsPrepending(table, subspaces, i, items) ==
    IF i > Len(subspaces) THEN Returned(PyList(items))
    ELSE LET r == SerializeNested(table, subspaces[i]) IN
         IF ~r.ok THEN r
         ELSE SerializeTupleItemsPrepending(table, subspaces, i + 1, <<r.val>> \o items)

\* the loop of the Tuple implementation from the i-th subspace on
SerializeTupleItems(table, subspaces, i, items) ==
    IF i > Len(subspaces) THEN Returned(PyList(items))
    ELSE LET r == SerializeNested(table, subspaces[i]) IN
         IF ~r.ok THEN r
         ELSE SerializeTupleItems(table, subspaces, i + 1, Append(items, r.val))

\* the implementation registered for spaces.Tuple
SerializeTuple(table, space, to_string) ==
    LET r == SerializeTupleItems(table, space.spaces, 1, <<>>) IN
    IF ~r.ok THEN r
    ELSE Finish(PyDict(<< <<"type", PyStr("Tuple")>>, <<"subspaces", r.val>> >>),
                to_string)

\* serialize_space(space, to_string)
SerializeSpace(table, space, to_string) ==
    LET f == Dispatch(table, space.variant) IN
    CASE f = "_serialize_box" -> SerializeBox(space, to_string)
      [] f = "_serialize_discrete" -> SerializeDiscrete(space, to_string)
      [] f = "_serialize_dict" -> SerializeDict(table, space, to_string)
      [] f = "_serialize_tuple" -> SerializeTuple(table, space, to_string)
      [] OTHER -> Raised("NotImplementedError", space)

(***************************************************************************)
(* The decoder: type_value_dispatch.  The registry is a defaultdict from   *)
(* the "type" value to the reconstruction routine.  A call returns         *)
(* [ok, val, err, at, info, reg, calls]: the descriptor returned or the    *)
(* exception raised, the function that raised it and the key or tag it     *)
(* carries, the registry after the call, and the routines entered, each    *)
(* with the "type" value of the representation it was given.               *)
(***************************************************************************)
Return(val, reg, calls) ==
    [ok |-> TRUE, val |-> val, err |-> "", at |-> "", info |-> "",
     reg |-> reg, calls |-> calls]
Raise(err, at, info, reg, calls) ==
    [ok |-> FALSE, val |-> None, err |-> err, at |-> at, info |-> info,
     reg |-> reg, calls |-> calls]

\* the empty table of type_value_dispatch.__init__
EmptyRegistry == [tag \in {} |-> ""]

\* a register that binds every tag of the table to the method given last
RegisterForEveryTag(reg, type, method) ==
    [tag \in DOMAIN reg \cup {type} |-> method]

\* type_value_dispatch.register(type)(method): self.registry[type] = method
Register(reg, type, method) ==
    [tag \in DOMAIN reg \cup {type} |-> IF tag = type THEN method ELSE reg[tag]]

\* the table after the four decorators of the module have run
InitialRegistry ==
    Register(Register(Register(Register(EmptyRegistry,
        "Tuple", "_deserialize_tuple"),
        "Dict", "_deserialize_dict"),
        "Box", "_deserialize_box"),
        "Discrete", "_deserialize_discrete")

\* the undecorated deserialize_space, the default_factory of the registry,
\* called with the sequence of arguments args: it takes one, space_dict,
\* and raises Not-Supported with its tag
Fallback(args, reg, calls) ==
    IF Len(args) # 1
    THEN Raise("TypeError", "deserialize_space", "space_dict", reg, calls)
    ELSE Raise("NotImplementedError", "deserialize_space",
               IF HasKey(args[1], "type") /\ Get(args[1], "type").k = "str"
               THEN Get(args[1], "type").s ELSE "",
               reg, calls)

\* __missing__ of a registry whose factory returns the undecorated
\* function: it is stored under the key
MissingStoresDefault(reg, key, calls) ==
    Return("deserialize_space", Register(reg, key, "deserialize_space"), calls)

\* defaultdict.__missing__(key): the value the factory returns, called
\* without arguments, is stored under the key and returned
Missing(reg, key, calls) ==
    LET made == Fallback(<<>>, reg, calls) IN
    IF ~made.ok THEN made
    ELSE Return(made.val, Register(reg, key, made.val), calls)

\* self.registry[tag]: [ok, val |-> the routine, reg |-> the table after]
Lookup(reg, tag, calls) ==
    IF tag.k = "str" /\ tag.s \in DOMAIN reg
    THEN Return(reg[tag.s], reg, calls)
    ELSE Missing(reg, IF tag.k = "str" THEN tag.s ELSE "", calls)

\* the tag each routine asserts
ExpectedTag(routine) ==
    CASE routine = "_deserialize_tuple" -> "Tuple"
      [] routine = "_deserialize_dict" -> "Dict"
      [] routine = "_deserialize_box" -> "Box"
      [] routine = "_deserialize_discrete" -> "Discrete"
      [] OTHER -> ""

\* the "type" value as recorded in calls
TagName(tag) == IF tag.k = "str" THEN tag.s ELSE ""

\* _deserialize_box after its assertion
DeserializeBox(d, reg, calls) ==
    IF ~HasKey(d, "shape") THEN Raise("KeyError", "_deserialize_box", "shape", reg, calls)
    ELSE IF ~HasKey(d, "low") THEN Raise("KeyError", "_deserialize_box", "low", reg, calls)
    ELSE IF ~HasKey(d, "high") THEN Raise("KeyError", "_deserialize_box", "high", reg, calls)
    ELSE IF ~HasKey(d, "dtype") THEN Raise("KeyError", "_deserialize_box", "dtype", reg, calls)
    ELSE LET shp == Get(d, "shape")
             low == NpArray(Get(d, "low"))
             high == NpArray(Get(d, "high"))
             dtype == Get(d, "dtype")
         IN IF shp.k # "list" \/ ~low.ok \/ ~high.ok
               \/ ~(\A i \in 1..Len(shp.items) : shp.items[i].k = "int")
            THEN Raise("TypeError", "_deserialize_box", "", reg, calls)
            ELSE IF dtype.k # "str" \/ dtype.s \notin Dtypes
            THEN Raise("TypeError", "np.dtype", TagName(dtype), reg, calls)
            ELSE LET shape == [i \in 1..Len(shp.items) |-> shp.items[i].n] IN
                 IF ~BoxOk(low.a, high.a, shape)
                 THEN Raise("AssertionError", "spaces.Box", "", reg, calls)
                 ELSE Return(BoxSpace(low.a, high.a, shape, dtype.s), reg, calls)

\* _deserialize_discrete after its assertion
DeserializeDiscrete(d, reg, calls) ==
    IF ~HasKey(d, "n") THEN Raise("KeyError", "_deserialize_discrete", "n", reg, calls)
    ELSE IF ~HasKey(d, "start")
    THEN Raise("KeyError", "_deserialize_discrete", "start", reg, calls)
    ELSE IF ~DiscreteOk(Get(d, "n"), Get(d, "start"))
    THEN Raise("AssertionError", "spaces.Discrete", "", reg, calls)
    ELSE Return(DiscreteSpace(Get(d, "n"), Get(d, "start")), reg, calls)

RECURSIVE DeserializeSpace(_, _, _)
RECURSIVE DeserializeTupleItems(_, _, _, _, _)
RECURSIVE DeserializeDictItems(_, _, _, _, _)

\* the generator of _deserialize_tuple from the i-th element on
DeserializeTupleItems(items, i, subspaces, reg, calls) ==
    IF i > Len(items) THEN Return(subspaces, reg, calls)
    ELSE LET r == DeserializeSpace(items[i], reg, calls) IN
         IF ~r.ok THEN r
         ELSE DeserializeTupleItems(items, i + 1, Append(subspaces, r.val),
                                    r.reg, r.calls)

\* _deserialize_tuple after its assertion
DeserializeTuple(d, reg, calls) ==
    IF ~HasKey(d, "subspaces")
    THEN Raise("KeyError", "_deserialize_tuple", "subspaces", reg, calls)
    ELSE LET sub == Get(d, "subspaces") IN
         IF sub.k # "list" THEN Raise("TypeError", "_deserialize_tuple", "", reg, calls)
         ELSE LET r == DeserializeTupleItems(sub.items, 1, <<>>, reg, calls) IN
              IF ~r.ok THEN r ELSE Return(TupleSpace(r.val), r.reg, r.calls)

\* the comprehension of _deserialize_dict from the i-th key on
DeserializeDictItems(pairs, i, subspaces, reg, calls) ==
    IF i > Len(pairs) THEN Return(subspaces, reg, calls)
    ELSE LET r == DeserializeSpace(pairs[i][2], reg, calls) IN
         IF ~r.ok THEN r
         ELSE DeserializeDictItems(pairs, i + 1,
                                   SetItem(subspaces, pairs[i][1], r.val),
                                   r.reg, r.calls)

\* _deserialize_dict after its assertion: the comprehension builds a plain
\* dict, which spaces.Dict receives
DeserializeDict(d, reg, calls) ==
    IF ~HasKey(d, "subspaces")
    THEN Raise("KeyError", "_deserialize_dict", "subspaces", reg, calls)
    ELSE LET sub == Get(d, "subspaces") IN
         IF sub.k # "dict" THEN Raise("TypeError", "_deserialize_dict", "", reg, calls)
         ELSE LET r == DeserializeDictItems(sub.pairs, 1, <<>>, reg, calls) IN
              IF ~r.ok THEN r ELSE Return(DictSpace(r.val, FALSE), r.reg, r.calls)

\* routine(space_dict): a registered routine is entered, asserts its tag
\* and reconstructs; the undecorated function only raises
Invoke(routine, d, reg, calls) ==
    LET entered == Append(calls, <<routine, TagName(Get(d, "type"))>>) IN
    IF routine \notin {"_deserialize_tuple", "_deserialize_dict",
                       "_deserialize_box", "_deserialize_discrete"}
    THEN Fallback(<<d>>, reg, calls)
    ELSE IF TagName(Get(d, "type")) # ExpectedTag(routine)
    THEN Raise("AssertionError", routine, TagName(Get(d, "type")), reg, entered)
    ELSE CASE routine = "_deserialize_tuple" -> DeserializeTuple(d, reg, entered)
           [] routine = "_deserialize_dict" -> DeserializeDict(d, reg, entered)
           [] routine = "_deserialize_box" -> DeserializeBox(d, reg, entered)
           [] OTHER -> DeserializeDiscrete(d, reg, entered)

\* __call__ reading the tag with space_dict.get("type")
DeserializeSpaceGetType(input, reg, calls) ==
    LET parsed == IF input.k = "text" THEN JsonLoads(input)
                  ELSE [ok |-> FALSE, v |-> None]
    IN
    IF input.k # "dict" /\ input.k \notin {"text", "str"}
    THEN Raise("TypeError", "json.loads", "", reg, calls)
    ELSE IF input.k # "dict" /\ ~parsed.ok
    THEN Raise("JSONDecodeError", "json.loads", "", reg, calls)
    ELSE LET d == IF input.k = "dict" THEN input ELSE parsed.v IN
         IF d.k # "dict" THEN Raise("AssertionError", "__call__", "", reg, calls)
         ELSE LET found == Lookup(reg, IF HasKey(d, "type") THEN Get(d, "type") ELSE None,
                                  calls)
              IN IF ~found.ok THEN found
                 ELSE Invoke(found.val, d, found.reg, calls)

\* type_value_dispatch.__call__(space_dict)
DeserializeSpace(input, reg, calls) ==
    LET parsed == IF input.k = "text" THEN JsonLoads(input)
                  ELSE [ok |-> FALSE, v |-> None]
    IN
    IF input.k # "dict" /\ input.k \notin {"text", "str"}
    THEN Raise("TypeError", "json.loads", "", reg, calls)
    ELSE IF input.k # "dict" /\ ~parsed.ok
    THEN Raise("JSONDecodeError", "json.loads", "", reg, calls)
    ELSE LET d == IF input.k = "dict" THEN input ELSE parsed.v IN
         IF d.k # "dict" THEN Raise("AssertionError", "__call__", "", reg, calls)
         ELSE IF ~HasKey(d, "type") THEN Raise("KeyError", "__call__", "type", reg, calls)
         ELSE LET found == Lookup(reg, Get(d, "type"), calls) IN
              IF ~found.ok THEN found
              ELSE Invoke(found.val, d, found.reg, calls)

(***************************************************************************)
(* The descriptors and the representations the calls are made on           *)
(***************************************************************************)
\* the nesting depth of the descriptors
MaxDepth == 3

\* Box(low=[-1, 0], high=[1, 2], shape=(2,), dtype=float32)
BoxF32 == BoxSpace(NdArray("float64", <<2>>, <<0 - 1, 0>>),
                   NdArray("float64", <<2>>, <<1, 2>>), <<2>>, "float32")
\* Box(low=np.array(0), high=np.array(5), shape=(), dtype=int64)
BoxI64 == BoxSpace(NdArray("int64", <<>>, <<0>>),
                   NdArray("int64", <<>>, <<5>>), <<>>, "int64")
\* Discrete(n=7, start=-3) and Discrete(n=2)
DiscreteM3 == DiscreteSpace(PyInt(7), PyInt(0 - 3))
Discrete2 == DiscreteSpace(PyInt(2), PyInt(0))

Leaves == {BoxF32, BoxI64, DiscreteM3, Discrete2, MultiBinarySpace(2)}

\* the composites built around a descriptor x: Tuples with x at either
\* position, Dicts built from an OrderedDict (the order given is kept) and
\* from a plain dict (sorted by the constructor)
Wrap(x) ==
    {TupleSpace(<<Discrete2, x>>),
     TupleSpace(<<x, BoxF32>>),
     DictSpace(<< <<"b", x>>, <<"a", Discrete2>> >>, TRUE),
     DictSpace(<< <<"b", x>>, <<"a", Discrete2>> >>, FALSE),
     DictSpace(<< <<"a", Discrete2>>, <<"b", x>>, <<"c", BoxF32>> >>, TRUE)}

\* the nesting depth of a descriptor
RECURSIVE Depth(_)
RECURSIVE MaxOf(_)
MaxOf(S) == IF S = {} THEN 0
            ELSE LET m == CHOOSE m \in S : \A n \in S : n <= m IN m
Depth(space) ==
    CASE space.variant = "Tuple" ->
             1 + MaxOf({Depth(space.spaces[i]) : i \in 1..Len(space.spaces)})
      [] space.variant = "Dict" ->
             1 + MaxOf({Depth(space.spaces[i][2]) : i \in 1..Len(space.spaces)})
      [] OTHER -> 1

\* representations decoded as they are given, not produced by the encoder
Frobnicate == PyDict(<< <<"type", PyStr("Frobnicate")>> >>)
EmptyDict == PyDict(<<>>)
DiscreteRep == PyDict(<< <<"type", PyStr("Discrete")>>, <<"dtype", PyStr("int64")>>,
                         <<"start", PyInt(0 - 3)>>, <<"n", PyInt(7)>> >>)
GivenInputs ==
    {Frobnicate, JsonDumps(Frobnicate),
     EmptyDict, JsonDumps(EmptyDict),
     PyDict(<< <<"subspaces", PyList(<<>>)>> >>),
     PyDict(<< <<"type", PyStr("Tuple")>>,
               <<"subspaces", PyList(<<DiscreteRep, Frobnicate>>)>> >>),
     PyDict(<< <<"type", PyStr("Dict")>>,
               <<"subspaces", PyDict(<< <<"a", DiscreteRep>>, <<"b", EmptyDict>> >>)>> >>),
     JsonDumps(PyDict(<< <<"type", PyStr("Tuple")>>,
                         <<"subspaces", PyList(<<Frobnicate>>)>> >>)),
     PyText(<<Punct("{")>>),
     JsonDumps(PyList(<<>>))}

(***************************************************************************)
(* The state: the two dispatch tables of the module, and the caller's      *)
(* descriptor with the results of the calls made on it.                    *)
(***************************************************************************)
VARIABLES
    registry,     \* deserialize_space.registry
    encoders,     \* the implementations registered on serialize_space
    space,        \* the descriptor the caller holds
    asRep,        \* the result of serialize_space(space, to_string=False)
    asText,       \* the result of serialize_space(space, to_string=True)
    input,        \* the argument of the last deserialize_space call
    source,       \* where it came from: "text", "rep" or "given"
    decoded,      \* the result of the last deserialize_space call
    reencoded,    \* the result of serialize_space on the decoded descriptor
    failures      \* whether a deserialize_space call has raised so far

vars == <<registry, encoders, space, asRep, asText, input, source, decoded,
          reencoded, failures>>

NotSerialized == Raised("not called", None)
NotDeserialized ==
    [ok |-> FALSE, val |-> None, err |-> "not called", at |-> "", info |-> "",
     calls |-> <<>>]

\* what the caller sees of a deserialize_space call
Outcome(r) ==
    [ok |-> r.ok, val |-> r.val, err |-> r.err, at |-> r.at, info |-> r.info,
     calls |-> r.calls]

Init ==
    /\ registry = InitialRegistry
    /\ encoders = EncoderTable
    /\ space \in Leaves
    /\ asRep = NotSerialized
    /\ asText = NotSerialized
    /\ input = None
    /\ source = "none"
    /\ decoded = NotDeserialized
    /\ reencoded = NotSerialized
    /\ failures = FALSE

\* the caller holds the descriptor d from now on
Hold(d) ==
    /\ d # space
    /\ space' = d
    /\ asRep' = NotSerialized
    /\ asText' = NotSerialized
    /\ input' = None
    /\ source' = "none"
    /\ decoded' = NotDeserialized
    /\ reencoded' = NotSerialized
    /\ UNCHANGED <<registry, encoders, failures>>

\* the caller builds a descriptor of one of the leaf variants
NewLeaf == \E d \in Leaves : Hold(d)

\* the caller nests its descriptor in a Tuple or a Dict
NewComposite == Depth(space) < MaxDepth /\ \E d \in Wrap(space) : Hold(d)

\* serialize_space(space, to_string=False)
SerializeToRep ==
    /\ asRep = NotSerialized
    /\ asRep' = SerializeSpace(encoders, space, FALSE)
    /\ UNCHANGED <<registry, encoders, space, asText, input, source, decoded, reencoded, failures>>

\* serialize_space(space, to_string=True)
SerializeToText ==
    /\ asText = NotSerialized
    /\ asText' = SerializeSpace(encoders, space, TRUE)
    /\ UNCHANGED <<registry, encoders, space, asRep, input, source, decoded, reencoded, failures>>

\* deserialize_space(x)
Deserialize(x, from) ==
    LET r == DeserializeSpace(x, registry, <<>>) IN
    /\ input' = x
    /\ source' = from
    /\ decoded' = Outcome(r)
    /\ registry' = r.reg
    /\ reencoded' = NotSerialized
    /\ failures' = (failures \/ ~r.ok)
    /\ UNCHANGED <<encoders, space, asRep, asText>>

\* the text of the descriptor is decoded
DeserializeText == asText.ok /\ source # "text" /\ Deserialize(asText.val, "text")

\* the structured representation of the descriptor is decoded
DeserializeRep == asRep.ok /\ source # "rep" /\ Deserialize(asRep.val, "rep")

\* a representation that did not come from the encoder is decoded
DeserializeGiven == \E x \in GivenInputs : x # input /\ Deserialize(x, "given")

\* the decoded descriptor is encoded again, as the first encoding was
Reserialize ==
    /\ decoded.ok
    /\ reencoded = NotSerialized
    /\ reencoded' = SerializeSpace(encoders, decoded.val, source = "text")
    /\ UNCHANGED <<registry, encoders, space, asRep, asText, input, source, decoded, failures>>

Next ==
    \/ NewLeaf
    \/ NewComposite
    \/ SerializeToRep
    \/ SerializeToText
    \/ DeserializeText
    \/ DeserializeRep
    \/ DeserializeGiven
    \/ Reserialize

Spec == Init /\ [][Next]_vars

(***************************************************************************)
(* Definitions the properties are stated with                              *)
(***************************************************************************)
RegisteredTags == {"Tuple", "Dict", "Box", "Discrete"}
Routines == {"_deserialize_tuple", "_deserialize_dict", "_deserialize_box",
             "_deserialize_discrete"}

\* the parsed representation of an argument of deserialize_space
Rep(x) == IF x.k = "text" THEN JsonLoads(x).v ELSE x

\* the keys and the sub-descriptors of a Dict descriptor
KeysOf(d) == [i \in 1..Len(d.spaces) |-> d.spaces[i][1]]
KeySet(d) == {d.spaces[i][1] : i \in 1..Len(d.spaces)}
SubspaceOf(d, key) == d.spaces[CHOOSE i \in 1..Len(d.spaces) : d.spaces[i][1] = key][2]
Children(d) ==
    CASE d.variant = "Tuple" -> {d.spaces[i] : i \in 1..Len(d.spaces)}
      [] d.variant = "Dict" -> {d.spaces[i][2] : i \in 1..Len(d.spaces)}
      [] OTHER -> {}

\* equality of two descriptors in their semantic fields: the order of the
\* elements of a Tuple counts, the order of the keys of a Dict does not
RECURSIVE SemEq(_, _)
SemEq(d, e) ==
    /\ d.variant = e.variant
    /\ CASE d.variant = "Box" ->
                /\ d.dtype = e.dtype
                /\ d.shape = e.shape
                /\ d.low = e.low
                /\ d.high = e.high
         [] d.variant = "Discrete" -> d.start = e.start /\ d.n = e.n
         [] d.variant = "Tuple" ->
                /\ Len(d.spaces) = Len(e.spaces)
                /\ \A i \in 1..Len(d.spaces) : SemEq(d.spaces[i], e.spaces[i])
         [] d.variant = "Dict" ->
                /\ Len(d.spaces) = Len(e.spaces)
                /\ KeySet(d) = KeySet(e)
                /\ \A key \in KeySet(d) : SemEq(SubspaceOf(d, key), SubspaceOf(e, key))
         [] OTHER -> d = e

\* a descriptor of a variant without encoder occurs in d, at any depth
RECURSIVE HasUnregistered(_)
HasUnregistered(d) ==
    \/ d.variant \notin RegisteredTags
    \/ \E c \in Children(d) : HasUnregistered(c)

\* descriptor c occurs in d, at any depth
RECURSIVE OccursIn(_, _)
OccursIn(c, d) == c = d \/ \E e \in Children(d) : OccursIn(c, e)

\* the keys under "subspaces" of an encoding of a Dict, text or structured
SubspaceKeys(enc) == Keys(Get(Rep(enc), "subspaces"))

\* a representation is structured at every depth: a mapping with a "type"
\* field whose "subspaces" entries, if any, are structured as well
RECURSIVE Structured(_)
Structured(rep) ==
    /\ rep.k = "dict"
    /\ HasKey(rep, "type")
    /\ HasKey(rep, "subspaces") =>
           LET sub == Get(rep, "subspaces") IN
           CASE sub.k = "list" -> \A i \in 1..Len(sub.items) : Structured(sub.items[i])
             [] sub.k = "dict" -> \A i \in 1..Len(sub.pairs) : Structured(sub.pairs[i][2])
             [] OTHER -> FALSE

\* the descriptor has been encoded to text and that text decoded
RoundTripped == source = "text" /\ asText.ok

(***************************************************************************)
(* Properties                                                              *)
(***************************************************************************)

\* C1: the text of every descriptor built from Box, Discrete, Dict and Tuple
\* decodes to a descriptor equal to it in all semantic fields: variant,
\* dtype, shape, bounds, start and n, the keys of a Dict with their
\* sub-descriptors, and the order of the elements of a Tuple.
RoundTripIdentity ==
    RoundTripped => decoded.ok /\ SemEq(decoded.val, space)

RoundTripWitness ==
    /\ RoundTripped
    /\ decoded.ok
    /\ Depth(space) = 3
    /\ space.variant = "Dict"
    /\ \E c \in Children(space) : c.variant = "Tuple" /\ Depth(c) = 2

\* C2: decoding a representation, mapping or text, whose "type" is a string
\* other than the registered tags raises NotImplementedError carrying the tag.
UnknownTagNotSupported ==
    (/\ source = "given"
     /\ Rep(input).k = "dict"
     /\ HasKey(Rep(input), "type")
     /\ Get(Rep(input), "type").k = "str"
     /\ Get(Rep(input), "type").s \notin RegisteredTags)
    => (/\ ~decoded.ok
        /\ decoded.err = "NotImplementedError"
        /\ decoded.info = Get(Rep(input), "type").s)

\* C3: decoding a representation without "type" field, mapping or text,
\* raises the KeyError of the missing "type" before any reconstruction
\* routine is entered, and returns no descriptor.
MissingTagFails ==
    (source = "given" /\ Rep(input).k = "dict" /\ ~HasKey(Rep(input), "type"))
    => (/\ ~decoded.ok
        /\ decoded.err = "KeyError"
        /\ decoded.info = "type"
        /\ decoded.calls = <<>>
        /\ decoded.val = None)

MissingTagWitness ==
    /\ source = "given"
    /\ input = JsonDumps(EmptyDict)
    /\ decoded.err = "KeyError"

\* C4: encoding a Dict, decoding the result and encoding the decoded
\* descriptor again gives the keys under "subspaces" in the order of the
\* first encoding.
KeyOrderPreserved ==
    (space.variant = "Dict" /\ source \in {"text", "rep"} /\ reencoded.ok)
    => SubspaceKeys(reencoded.val) = SubspaceKeys(input)

\* C5: the i-th element of "subspaces" of an encoded Tuple is the encoding
\* of its i-th sub-descriptor, and the i-th sub-descriptor of the decoded
\* Tuple is the decoding of that element: nothing is reordered, dropped or
\* duplicated.
TuplePositionsPreserved ==
    /\ (space.variant = "Tuple" /\ asRep.ok) =>
           LET sub == Get(asRep.val, "subspaces") IN
           /\ sub.k = "list"
           /\ Len(sub.items) = Len(space.spaces)
           /\ \A i \in 1..Len(space.spaces) :
                  sub.items[i] = SerializeSpace(EncoderTable, space.spaces[i], FALSE).val
    /\ (space.variant = "Tuple" /\ source \in {"text", "rep"} /\ decoded.ok) =>
           LET sub == Get(Rep(input), "subspaces") IN
           /\ decoded.val.variant = "Tuple"
           /\ Len(decoded.val.spaces) = Len(space.spaces)
           /\ \A i \in 1..Len(space.spaces) :
                  /\ decoded.val.spaces[i].variant = space.spaces[i].variant
                  /\ decoded.val.spaces[i]
                         = DeserializeSpace(sub.items[i], InitialRegistry, <<>>).val

TuplePositionsWitness ==
    /\ space.variant = "Tuple"
    /\ Len(space.spaces) = 2
    /\ space.spaces[1].variant = "Discrete"
    /\ space.spaces[2].variant = "Box"
    /\ asRep.ok
    /\ RoundTripped
    /\ decoded.ok
    /\ decoded.val.spaces[1].variant = "Discrete"
    /\ decoded.val.spaces[2].variant = "Box"

\* C6: the text of a Discrete with start s and count n parses to exactly
\* {"type": "Discrete", "dtype": "int64", "start": s, "n": n} with s and n
\* Python integers, and decoding that text gives a descriptor whose legal
\* values are s .. s+n-1.
DiscreteEncoding ==
    /\ (space.variant = "Discrete" /\ asText # NotSerialized) =>
           /\ asText.ok
           /\ asText.val.k = "text"
           /\ JsonLoads(asText.val).ok
           /\ JsonLoads(asText.val).v
                  = PyDict(<< <<"type", PyStr("Discrete")>>,
                              <<"dtype", PyStr("int64")>>,
                              <<"start", PyInt(space.start.val)>>,
                              <<"n", PyInt(space.n.val)>> >>)
    /\ (space.variant = "Discrete" /\ source = "text") =>
           /\ decoded.ok
           /\ decoded.val.variant = "Discrete"
           /\ LegalValues(decoded.val)
                  = space.start.val .. (space.start.val + space.n.val - 1)

DiscreteWitness ==
    /\ space = DiscreteM3
    /\ RoundTripped
    /\ decoded.ok
    /\ LegalValues(decoded.val) = (0 - 3) .. 3

\* C7: serialize_space on a descriptor that has a sub-descriptor of a
\* variant without encoder, at any depth or at the top, raises
\* NotImplementedError naming that sub-descriptor and returns nothing,
\* neither a partial representation nor text.
UnregisteredFailsAtomically ==
    \A r \in {asRep, asText} :
        (HasUnregistered(space) /\ r # NotSerialized) =>
            /\ ~r.ok
            /\ r.err = "NotImplementedError"
            /\ r.val = None
            /\ r.about.variant \notin RegisteredTags
            /\ OccursIn(r.about, space)

UnregisteredWitness ==
    /\ Depth(space) = 3
    /\ space.variant = "Dict"
    /\ ~(\E c \in Children(space) : c.variant = "MultiBinary")
    /\ HasUnregistered(space)
    /\ asRep.err = "NotImplementedError"
    /\ asText.err = "NotImplementedError"

\* C8: every entry under "subspaces" of an encoding, at every depth and for
\* either value of to_string, is a mapping with a "type" field, never text;
\* the text is rendered once, at the top: serialize_space(d, True) is the
\* rendering of serialize_space(d, False).
NestedAlwaysStructured ==
    /\ asRep.ok => Structured(asRep.val)
    /\ asText.ok =>
           /\ asText.val.k = "text"
           /\ JsonLoads(asText.val).ok
           /\ Structured(JsonLoads(asText.val).v)
    /\ (asRep.ok /\ asText.ok) => asText.val = JsonDumps(asRep.val)

NestedStructuredWitness ==
    /\ Depth(space) = 3
    /\ asRep.ok
    /\ asText.ok
    /\ space.variant = "Tuple"
    /\ \E c \in Children(space) : c.variant = "Dict"

\* C9: whatever calls were made, failing ones included, the decoder's
\* registry holds exactly the four tags bound to their routines and the
\* encoder's table is as registered, and the outcome of the last decode is
\* the outcome the same call has on the tables of a fresh module.
TablesNeverMutated ==
    /\ DOMAIN registry = RegisteredTags
    /\ registry["Tuple"] = "_deserialize_tuple"
    /\ registry["Dict"] = "_deserialize_dict"
    /\ registry["Box"] = "_deserialize_box"
    /\ registry["Discrete"] = "_deserialize_discrete"
    /\ encoders = EncoderTable
    /\ source # "none" =>
           decoded = Outcome(DeserializeSpace(input, InitialRegistry, <<>>))

TablesWitness ==
    /\ failures
    /\ RoundTripped
    /\ decoded.ok
    /\ Depth(space) = 3

\* C10: every reconstruction routine entered, at the top or by recursion,
\* was given a representation whose "type" is the tag it asserts, and no
\* call ends in the AssertionError of a routine.
TagAssertionsNeverFail ==
    /\ \A i \in 1..Len(decoded.calls) :
           ExpectedTag(decoded.calls[i][1]) = decoded.calls[i][2]
    /\ ~(decoded.err = "AssertionError" /\ decoded.at \in Routines)

TagAssertionsWitness ==
    /\ decoded.ok
    /\ {decoded.calls[i][1] : i \in 1..Len(decoded.calls)} = Routines

TypeOK ==
    /\ Depth(space) \in 1..MaxDepth
    /\ DOMAIN registry = {"Tuple", "Dict", "Box", "Discrete"}
====
